---- MODULE Spec2Model ----
(***************************************************************************)
(* Model of src/dev/mod.ts of fresh: the route/island manifest builder.    *)
(*   collectDir  - scan of one root with logical-name conflict detection   *)
(*   collect     - the two scans joined by Promise.all                     *)
(*   generate    - rendering of fresh.gen.ts, formatter subprocess, write  *)
(*   dev         - one restart cycle: snapshot read, collect, snapshot     *)
(*                 write, comparison, regeneration, dispatch               *)
(* A path is the sequence of its characters (one-character strings), so    *)
(* that split/join, sorting by code unit and the separator replacement are *)
(* computed as the code computes them.  The host is POSIX: relative() and  *)
(* join() use "/" and a file name may contain a backslash.                 *)
(***************************************************************************)
EXTENDS Integers, Sequences, FiniteSets, TLC

\* ------------------------------------------------------------------ bounds
\* at most this many files exist under one root at a time
MaxFiles == 2
\* number of dev() cycles (process restarts) explored
MaxCycles == 2
\* file-tree edits between two consecutive cycles
MaxEdits == 2

\* ------------------------------------------------------------ string model
DOT == "."
SLASH == "/"
BACKSLASH == "\\"
QUOTE == "\""

\* UTF-16 code unit of the characters used by the file universe
CodeUnit(c) ==
  CASE c = "\"" -> 34
    [] c = "$" -> 36
    [] c = "." -> 46
    [] c = "/" -> 47
    [] c = "C" -> 67
    [] c = "\\" -> 92
    [] c = "a" -> 97
    [] c = "b" -> 98
    [] c = "c" -> 99
    [] c = "d" -> 100
    [] c = "e" -> 101
    [] c = "i" -> 105
    [] c = "j" -> 106
    [] c = "l" -> 108
    [] c = "m" -> 109
    [] c = "n" -> 110
    [] c = "o" -> 111
    [] c = "r" -> 114
    [] c = "s" -> 115
    [] c = "t" -> 116
    [] c = "u" -> 117
    [] c = "x" -> 120

\* a < b as the default Array.prototype.sort comparison of two strings
RECURSIVE StrLess(_, _)
StrLess(a, b) ==
  IF b = <<>> THEN FALSE
  ELSE IF a = <<>> THEN TRUE
  ELSE IF CodeUnit(Head(a)) < CodeUnit(Head(b)) THEN TRUE
  ELSE IF CodeUnit(Head(a)) > CodeUnit(Head(b)) THEN FALSE
  ELSE StrLess(Tail(a), Tail(b))

\* String.prototype.split(sep) for a one-character separator
RECURSIVE Split(_, _)
Split(s, sep) ==
  IF \A i \in 1..Len(s) : s[i] # sep THEN <<s>>
  ELSE LET k == CHOOSE i \in 1..Len(s) :
                   s[i] = sep /\ \A j \in 1..(i - 1) : s[j] # sep
       IN <<SubSeq(s, 1, k - 1)>> \o Split(SubSeq(s, k + 1, Len(s)), sep)

\* Array.prototype.join(sep)
RECURSIVE Join(_, _)
Join(parts, sep) ==
  IF parts = <<>> THEN <<>>
  ELSE IF Len(parts) = 1 THEN parts[1]
  ELSE parts[1] \o <<sep>> \o Join(Tail(parts), sep)

\* Array.prototype.slice(0, -1)
SliceDropLast(parts) ==
  IF parts = <<>> THEN <<>> ELSE SubSeq(parts, 1, Len(parts) - 1)

EndsWith(s, suffix) ==
  /\ Len(s) >= Len(suffix)
  /\ SubSeq(s, Len(s) - Len(suffix) + 1, Len(s)) = suffix

\* ---------------------------------------------------------- file universe
\* exts option handed to walk()
Exts == { <<"t", "s", "x">>, <<"j", "s", "x">>, <<"t", "s">>, <<"j", "s">> }

\* files that may exist under routes/ (paths relative to the root)
RouteFiles ==
  { <<"a", ".", "t", "s">>,
    <<"a", ".", "t", "s", "x">>,
    <<"a", "/", "b", ".", "t", "s">>,
    <<"a", "\\", "b", ".", "t", "s">>,
    <<"c", ".", "m", "d">> }

\* files that may exist under islands/
IslandFiles ==
  { <<"C", ".", "j", "s", "x">>,
    <<"a", ".", "t", "s">> }

FilesOf(root) == IF root = "routes" THEN RouteFiles ELSE IslandFiles

Roots == {"routes", "islands"}

\* walk(dir, {includeDirs: false, includeFiles: true, exts}) visits exactly
\* the files whose name ends in "." followed by one of the extensions
Walked(files) ==
  { f \in files : \E e \in Exts : EndsWith(f, <<DOT>> \o e) }

\* all orders in which the walk can yield a set of files
Orders(S) ==
  { o \in [1..Cardinality(S) -> S] : \A f \in S : \E i \in DOMAIN o : o[i] = f }

\* ------------------------------------------------------------- collectDir
\* mutation: the extension is not stripped before the names are compared
LogicalNameWithExt(path) == path

\* relative(dir, entry.path).split(".").slice(0, -1).join(".")
LogicalName(path) == Join(SliceDropLast(Split(path, DOT)), DOT)

\* paths.sort(): position of x among the already sorted elements
InsertSorted(sorted, x) ==
  LET k == Cardinality({ i \in 1..Len(sorted) : StrLess(sorted[i], x) })
  IN SubSeq(sorted, 1, k) \o <<x>> \o SubSeq(sorted, k + 1, Len(sorted))

\* mutation: the paths are returned in walk order
SortPathsUnsorted(paths) == paths

RECURSIVE SortPaths(_)
SortPaths(paths) ==
  IF paths = <<>> THEN <<>>
  ELSE InsertSorted(SortPaths(Tail(paths)), Head(paths))

\* the for-await loop over the walk: entries arrive in the given order; the
\* loop throws at the first entry whose logical name was already seen
RECURSIVE ScanLoop(_, _, _)
ScanLoop(order, paths, fileNames) ==
  IF order = <<>> THEN [outcome |-> "ok", paths |-> SortPaths(paths), walked |-> TRUE]
  ELSE LET fileNameWithoutExt == LogicalName(Head(order))
       IN IF fileNameWithoutExt \in fileNames
          THEN [outcome |-> "conflict", paths |-> <<>>, walked |-> TRUE]
          ELSE ScanLoop(Tail(order), Append(paths, Head(order)),
                        fileNames \cup {fileNameWithoutExt})

\* mutation: every stat error is taken for a missing directory
CollectDirSwallowsStatErrors(stat, order) ==
  IF stat = "dir" THEN ScanLoop(order, <<>>, {})
  ELSE [outcome |-> "ok", paths |-> <<>>, walked |-> FALSE]

\* collectDir(dir): stat is the outcome of Deno.stat(dir)
\*   "absent" NotFound, "file" exists but is no directory,
\*   "denied" any other stat error, "dir" a directory
CollectDir(stat, order) ==
  IF stat = "file" THEN [outcome |-> "ok", paths |-> <<>>, walked |-> FALSE]
  ELSE IF stat = "absent" THEN [outcome |-> "ok", paths |-> <<>>, walked |-> FALSE]
  ELSE IF stat = "denied" THEN [outcome |-> "error", paths |-> <<>>, walked |-> FALSE]
  ELSE ScanLoop(order, <<>>, {})

\* ---------------------------------------------------------------- collect
EmptyManifest == [routes |-> <<>>, islands |-> <<>>]

\* mutation: a failed scan counts as an empty list (Promise.allSettled)
CollectAllSettled(routesScan, islandsScan) ==
  [ok |-> TRUE,
   manifest |-> [routes |-> routesScan.paths, islands |-> islandsScan.paths]]

\* Promise.all of the two scans: rejects as soon as one scan rejects
Collect(routesScan, islandsScan) ==
  IF routesScan.outcome = "ok" /\ islandsScan.outcome = "ok"
  THEN [ok |-> TRUE,
        manifest |-> [routes |-> routesScan.paths, islands |-> islandsScan.paths]]
  ELSE [ok |-> FALSE, manifest |-> EmptyManifest]

\* ---------------------------------------------------------------- generate
\* normalizeString of posix.normalize: drops empty and "." segments and
\* resolves ".." against the segments kept so far
RECURSIVE ResolveSegments(_, _, _)
ResolveSegments(segs, acc, allowAboveRoot) ==
  IF segs = <<>> THEN acc
  ELSE LET h == Head(segs)
       IN IF h = <<>> \/ h = <<DOT>>
          THEN ResolveSegments(Tail(segs), acc, allowAboveRoot)
          ELSE IF h = <<DOT, DOT>>
          THEN IF acc # <<>> /\ acc[Len(acc)] # <<DOT, DOT>>
               THEN ResolveSegments(Tail(segs), SubSeq(acc, 1, Len(acc) - 1), allowAboveRoot)
               ELSE IF allowAboveRoot
               THEN ResolveSegments(Tail(segs), Append(acc, h), allowAboveRoot)
               ELSE ResolveSegments(Tail(segs), acc, allowAboveRoot)
          ELSE ResolveSegments(Tail(segs), Append(acc, h), allowAboveRoot)

\* posix.normalize(path)
PosixNormalize(path) ==
  IF path = <<>> THEN <<DOT>>
  ELSE LET isAbsolute == path[1] = SLASH
           trailing == path[Len(path)] = SLASH
           body == Join(ResolveSegments(Split(path, SLASH), <<>>, ~isAbsolute), SLASH)
           body1 == IF body = <<>> /\ ~isAbsolute THEN <<DOT>> ELSE body
           body2 == IF body1 # <<>> /\ trailing THEN body1 \o <<SLASH>> ELSE body1
       IN IF isAbsolute THEN <<SLASH>> \o body2 ELSE body2

\* join(a, b) on a POSIX host
PosixJoin(a, b) ==
  IF a = <<>> /\ b = <<>> THEN <<DOT>>
  ELSE IF a = <<>> THEN PosixNormalize(b)
  ELSE IF b = <<>> THEN PosixNormalize(a)
  ELSE PosixNormalize(a \o <<SLASH>> \o b)

\* String.prototype.replace(/\\/g, "/")
ReplaceBackslashes(s) == [i \in 1..Len(s) |-> IF s[i] = BACKSLASH THEN SLASH ELSE s[i]]

ToImportSpecifier(file) ==
  LET specifier == ReplaceBackslashes(PosixNormalize(file))
  IN IF specifier # <<>> /\ specifier[1] = DOT
     THEN specifier
     ELSE <<DOT, SLASH>> \o specifier

\* JSON.stringify of a string: quoted, with quote and backslash escaped
RECURSIVE JSONEscape(_)
JSONEscape(s) ==
  IF s = <<>> THEN <<>>
  ELSE IF Head(s) = QUOTE \/ Head(s) = BACKSLASH
  THEN <<BACKSLASH, Head(s)>> \o JSONEscape(Tail(s))
  ELSE <<Head(s)>> \o JSONEscape(Tail(s))

JSONStringifyString(s) == <<QUOTE>> \o JSONEscape(s) \o <<QUOTE>>

RoutesDir == <<"r", "o", "u", "t", "e", "s">>
IslandsDir == <<"i", "s", "l", "a", "n", "d", "s">>

\* the text rendered by generate(): the import statements in order and the
\* entries of the two registry objects in order; binding $i is written
\* [prefix "$", index i] and binding $$i [prefix "$$", index i]
ImportLine(prefix, dir, file, i) ==
  [binding |-> [prefix |-> prefix, index |-> i - 1],
   source |-> <<QUOTE>> \o ToImportSpecifier(PosixJoin(dir, file)) \o <<QUOTE>>]

RegistryEntry(prefix, dir, file, i) ==
  [key |-> JSONStringifyString(ToImportSpecifier(PosixJoin(dir, file))),
   binding |-> [prefix |-> prefix, index |-> i - 1]]

Render(manifest) ==
  [imports |->
     [i \in 1..Len(manifest.routes) |-> ImportLine("$", RoutesDir, manifest.routes[i], i)]
     \o [i \in 1..Len(manifest.islands) |-> ImportLine("$$", IslandsDir, manifest.islands[i], i)],
   routes |->
     [i \in 1..Len(manifest.routes) |-> RegistryEntry("$", RoutesDir, manifest.routes[i], i)],
   islands |->
     [i \in 1..Len(manifest.islands) |-> RegistryEntry("$$", IslandsDir, manifest.islands[i], i)]]

\* -------------------------------------------------------------- snapshot
\* mutation: only the routes are serialized, the islands array is left empty
JSONStringifyRoutesOnly(manifest) ==
  <<[t |-> "key", v |-> <<"r", "o", "u", "t", "e", "s">>]>>
  \o [i \in 1..Len(manifest.routes) |-> [t |-> "str", v |-> manifest.routes[i]]]
  \o <<[t |-> "key", v |-> <<"i", "s", "l", "a", "n", "d", "s">>]>>

\* JSON.stringify(newManifest): the text as its sequence of tokens, keys in
\* the order the object literal of collect() creates them
JSONStringify(manifest) ==
  <<[t |-> "key", v |-> RoutesDir]>>
  \o [i \in 1..Len(manifest.routes) |-> [t |-> "str", v |-> manifest.routes[i]]]
  \o <<[t |-> "key", v |-> IslandsDir]>>
  \o [i \in 1..Len(manifest.islands) |-> [t |-> "str", v |-> manifest.islands[i]]]

\* the array that follows the given key in a JSON text
RECURSIVE TakeStrings(_)
TakeStrings(tokens) ==
  IF tokens = <<>> \/ Head(tokens).t # "str" THEN <<>>
  ELSE <<Head(tokens).v>> \o TakeStrings(Tail(tokens))

ArrayAfterKey(text, key) ==
  LET k == CHOOSE i \in 1..Len(text) : text[i].t = "key" /\ text[i].v = key
  IN TakeStrings(SubSeq(text, k + 1, Len(text)))

JSONParse(text) ==
  [routes |-> ArrayAfterKey(text, RoutesDir), islands |-> ArrayAfterKey(text, IslandsDir)]

\* ------------------------------------------------------------------- dev
\* mutation: the element loop is missing
ArraysEqualLengthOnly(a, b) == Len(a) = Len(b)

ArraysEqual(a, b) ==
  IF Len(a) # Len(b) THEN FALSE
  ELSE \A i \in 1..Len(a) : a[i] = b[i]

\* mutation: the manifests are compared by object identity
ManifestChangedByIdentity(newManifest, currentManifest) == TRUE

ManifestChanged(newManifest, currentManifest) ==
  \/ ~ArraysEqual(newManifest.routes, currentManifest.routes)
  \/ ~ArraysEqual(newManifest.islands, currentManifest.islands)

\* what the formatter subprocess (deno fmt -) can do in one generate():
\*   "fmt_nospawn"      Deno.Command(...).spawn() throws
\*   "fmt_pipe_error"   raw.pipeTo(proc.stdin) rejects
\*   "fmt_exit_nonzero" the process exits with a failure status, stdout is empty
\*   "fmt_ok"           the process exits successfully, stdout is the formatted text
FormatterOutcomes == {"fmt_nospawn", "fmt_pipe_error", "fmt_exit_nonzero", "fmt_ok"}

EmptyBody == [imports |-> <<>>, routes |-> <<>>, islands |-> <<>>]
NoFile == [kind |-> "absent", body |-> EmptyBody]
EmptyText == [kind |-> "empty", body |-> EmptyBody]

\* new TextDecoder().decode(stdout): formatting keeps the statements of the
\* module it is given; a failed formatter has written nothing to stdout
ManifestStr(outcome, output) ==
  IF outcome = "fmt_ok" THEN [kind |-> "module", body |-> output] ELSE EmptyText

\* does generate() throw before it reaches Deno.writeTextFile
GenerateThrows(outcome) == outcome \in {"fmt_nospawn", "fmt_pipe_error"}

NoDelta == [kind |-> "none", root |-> "routes", file |-> <<>>]
NoScan == [order |-> <<>>,
           result |-> [outcome |-> "ok", paths |-> <<>>, walked |-> FALSE]]

VARIABLES
  tree,             \* per root: stat outcome of the root and the files under it
  env,              \* FRSH_DEV_PREVIOUS_MANIFEST: [set, text]
  genFile,          \* fresh.gen.ts
  pc,               \* position of dev()
  cycle,            \* number of dev() cycles started
  edits,            \* file-tree edits since the last cycle
  delta,            \* what changed in the file tree since the last cycle
  currentManifest,  \* dev(): the snapshot as parsed at the start
  newManifest,      \* dev(): result of collect
  manifestChanged,  \* dev(): result of the comparison
  scan,             \* per root: walk order and result of the last collectDir
  stdout,           \* generate(): decoded output of the formatter
  log,              \* effects of the running cycle, in order
  prevLog           \* effects of the previous cycle

vars == <<tree, env, genFile, pc, cycle, edits, delta, currentManifest,
          newManifest, manifestChanged, scan, stdout, log, prevLog>>

Init ==
  /\ tree = [r \in Roots |-> [stat |-> "absent", files |-> {}]]
  /\ env = [set |-> FALSE, text |-> <<>>]
  /\ genFile = NoFile
  /\ pc = "idle"
  /\ cycle = 0
  /\ edits = 0
  /\ delta = NoDelta
  /\ currentManifest = EmptyManifest
  /\ newManifest = EmptyManifest
  /\ manifestChanged = FALSE
  /\ scan = [r \in Roots |-> NoScan]
  /\ stdout = EmptyText
  /\ log = <<>>
  /\ prevLog = <<>>

cycleLocals == <<currentManifest, newManifest, manifestChanged, scan, stdout, log, prevLog>>

\* ---------------------------------------------- the file tree between cycles
CanEdit == pc = "idle" /\ edits < MaxEdits /\ cycle < MaxCycles

NoteEdit(kind, root, file) ==
  /\ edits' = edits + 1
  /\ delta' = IF delta.kind = "none"
              THEN [kind |-> kind, root |-> root, file |-> file]
              ELSE [kind |-> "other", root |-> "routes", file |-> <<>>]

AddFile(root, f) ==
  /\ CanEdit
  /\ tree[root].stat \in {"dir", "absent"}
  /\ f \notin tree[root].files
  /\ Cardinality(tree[root].files) < MaxFiles
  /\ tree' = [tree EXCEPT ![root] = [stat |-> "dir", files |-> tree[root].files \cup {f}]]
  /\ NoteEdit("add", root, f)
  /\ UNCHANGED <<env, genFile, pc, cycle, cycleLocals>>

RemoveFile(root, f) ==
  /\ CanEdit
  /\ tree[root].stat = "dir"
  /\ f \in tree[root].files
  /\ tree' = [tree EXCEPT ![root].files = tree[root].files \ {f}]
  /\ NoteEdit("remove", root, f)
  /\ UNCHANGED <<env, genFile, pc, cycle, cycleLocals>>

\* the root is removed, replaced by a plain file, made unreadable or readable
SetStat(root, s) ==
  /\ CanEdit
  /\ s # tree[root].stat
  /\ tree' = [tree EXCEPT ![root] =
                [stat |-> s,
                 files |-> IF s \in {"absent", "file"} THEN {} ELSE tree[root].files]]
  /\ NoteEdit("stat", root, <<>>)
  /\ UNCHANGED <<env, genFile, pc, cycle, cycleLocals>>

\* --------------------------------------------------------------- dev()
\* Deno.env.get and the parse of the snapshot
DevStart ==
  /\ pc = "idle"
  /\ cycle < MaxCycles
  /\ cycle' = cycle + 1
  /\ currentManifest' = IF env.set /\ env.text # <<>>
                        THEN JSONParse(env.text)
                        ELSE [islands |-> <<>>, routes |-> <<>>]
  /\ log' = <<"env_get">>
  /\ pc' = "collect"
  /\ UNCHANGED <<tree, env, genFile, edits, delta, newManifest, manifestChanged,
                 scan, stdout, prevLog>>

ScanOf(root, order) ==
  [order |-> order, result |-> CollectDir(tree[root].stat, order)]

WalkOrders(root) ==
  IF tree[root].stat = "dir" THEN Orders(Walked(tree[root].files)) ELSE {<<>>}

\* await collect(dir): both scans run, each over some order of its walk
CollectStep ==
  /\ pc = "collect"
  /\ \E ro \in WalkOrders("routes"), io \in WalkOrders("islands") :
       LET s == [r \in Roots |-> IF r = "routes" THEN ScanOf(r, ro) ELSE ScanOf(r, io)]
           c == Collect(s["routes"].result, s["islands"].result)
       IN /\ scan' = s
          /\ IF c.ok
             THEN /\ newManifest' = c.manifest
                  /\ log' = Append(log, "collect_ok")
                  /\ pc' = "snapshot"
             ELSE /\ newManifest' = newManifest
                  /\ log' = Append(log, "collect_failed")
                  /\ pc' = "aborted"
  /\ UNCHANGED <<tree, env, genFile, cycle, edits, delta, currentManifest,
                 manifestChanged, stdout, prevLog>>

\* Deno.env.set("FRSH_DEV_PREVIOUS_MANIFEST", JSON.stringify(newManifest))
Snapshot ==
  /\ pc = "snapshot"
  /\ env' = [set |-> TRUE, text |-> JSONStringify(newManifest)]
  /\ log' = Append(log, "env_set")
  /\ pc' = "compare"
  /\ UNCHANGED <<tree, genFile, cycle, edits, delta, currentManifest, newManifest,
                 manifestChanged, scan, stdout, prevLog>>

Compare ==
  /\ pc = "compare"
  /\ manifestChanged' = ManifestChanged(newManifest, currentManifest)
  /\ log' = Append(log, "compare")
  /\ pc' = IF manifestChanged' THEN "generate" ELSE "dispatch"
  /\ UNCHANGED <<tree, env, genFile, cycle, edits, delta, currentManifest,
                 newManifest, scan, stdout, prevLog>>

\* generate(): render, spawn the formatter, pipe the text in, read stdout
Format ==
  /\ pc = "generate"
  /\ \E outcome \in FormatterOutcomes :
       /\ log' = log \o <<"fmt_spawn", outcome>>
       /\ IF GenerateThrows(outcome)
          THEN /\ pc' = "aborted"
               /\ stdout' = stdout
          ELSE /\ pc' = "write"
               /\ stdout' = ManifestStr(outcome, Render(newManifest))
  /\ UNCHANGED <<tree, env, genFile, cycle, edits, delta, currentManifest,
                 newManifest, manifestChanged, scan, prevLog>>

\* generate(): Deno.writeTextFile(manifestPath, manifestStr)
WriteFile ==
  /\ pc = "write"
  /\ genFile' = stdout
  /\ log' = Append(log, "write_file")
  /\ pc' = "dispatch"
  /\ UNCHANGED <<tree, env, cycle, edits, delta, currentManifest, newManifest,
                 manifestChanged, scan, stdout, prevLog>>

\* Deno.args.includes("build") ? build(fresh.gen.ts) : import(entrypoint)
Dispatch ==
  /\ pc = "dispatch"
  /\ \E isBuild \in BOOLEAN :
       log' = Append(log, IF isBuild THEN "build" ELSE "import")
  /\ pc' = "running"
  /\ UNCHANGED <<tree, env, genFile, cycle, edits, delta, currentManifest,
                 newManifest, manifestChanged, scan, stdout, prevLog>>

\* the cycle is over (dev() has thrown, or the build or the server has run);
\* the watcher waits for the next restart
CycleEnd ==
  /\ pc \in {"running", "aborted"}
  /\ cycle < MaxCycles
  /\ pc' = "idle"
  /\ prevLog' = log
  /\ log' = <<>>
  /\ edits' = 0
  /\ delta' = NoDelta
  /\ currentManifest' = EmptyManifest
  /\ newManifest' = EmptyManifest
  /\ manifestChanged' = FALSE
  /\ scan' = [r \in Roots |-> NoScan]
  /\ stdout' = EmptyText
  /\ UNCHANGED <<tree, env, genFile, cycle>>

Next ==
  \/ \E root \in Roots : \E f \in FilesOf(root) : AddFile(root, f)
  \/ \E root \in Roots : \E f \in FilesOf(root) : RemoveFile(root, f)
  \/ \E root \in Roots : \E s \in {"absent", "file", "denied", "dir"} : SetStat(root, s)
  \/ DevStart
  \/ CollectStep
  \/ Snapshot
  \/ Compare
  \/ Format
  \/ WriteFile
  \/ Dispatch
  \/ CycleEnd

Spec == Init /\ [][Next]_vars

\* =================================================================== claims
Count(seq, ev) == Cardinality({ i \in 1..Len(seq) : seq[i] = ev })
Has(seq, ev) == \E i \in 1..Len(seq) : seq[i] = ev
Dispatched(seq) == Has(seq, "build") \/ Has(seq, "import")
CycleOver == pc \in {"running", "aborted"}
Scanned == pc \notin {"idle", "collect"}

\* the path with its final "."-separated segment removed, found by position
DropLastDotSegment(path) ==
  IF \A i \in 1..Len(path) : path[i] # DOT THEN <<>>
  ELSE LET k == CHOOSE i \in 1..Len(path) :
                   path[i] = DOT /\ \A j \in (i + 1)..Len(path) : path[j] # DOT
       IN SubSeq(path, 1, k - 1)

HasAcceptedExt(path) ==
  \E e \in Exts : Len(path) > Len(e) /\ path[Len(path) - Len(e)] = DOT
                  /\ \A i \in 1..Len(e) : path[Len(path) - Len(e) + i] = e[i]

Accepted(root) == { f \in tree[root].files : HasAcceptedExt(f) }

SeqSet(seq) == { seq[i] : i \in 1..Len(seq) }

\* seq with its k-th element removed
Without(seq, k) == SubSeq(seq, 1, k - 1) \o SubSeq(seq, k + 1, Len(seq))

\* the sources of the first n import statements of a rendered module
RouteSources(body, n) == [i \in 1..n |-> body.imports[i].source]

\* new is old with x inserted as its k-th element
InsertedAt(old, x, new, k) ==
  /\ k \in 1..Len(new)
  /\ new[k] = x
  /\ Without(new, k) = old

\* k is the place of path x among the ascending paths old
SortedPosition(old, x, k) ==
  /\ \A i \in 1..(k - 1) : StrLess(old[i], x)
  /\ \A i \in k..Len(old) : StrLess(x, old[i])

QuotedSpecifier(dir, file) ==
  <<QUOTE>> \o ToImportSpecifier(PosixJoin(dir, file)) \o <<QUOTE>>

\* ---- C1 -------------------------------------------------------------------
\* C1 as stated: from no snapshot, two runs (each running through to its
\* dispatch) with no file-tree change between them make exactly one formatter
\* invocation and exactly one write of fresh.gen.ts, both in the first run,
\* and none in the second run.
C1_AsStated ==
  (pc = "running" /\ cycle = 2 /\ delta.kind = "none" /\ Dispatched(prevLog))
    => /\ Count(prevLog, "fmt_spawn") = 1
       /\ Count(prevLog, "write_file") = 1
       /\ Count(log, "fmt_spawn") = 0
       /\ Count(log, "write_file") = 0

\* C1 amended: from no snapshot, two runs with no file-tree change between
\* them: the second run never invokes the formatter and never writes
\* fresh.gen.ts; the first run invokes the formatter exactly once if its
\* collect succeeded with a non-empty manifest and not at all otherwise, and
\* writes fresh.gen.ts exactly once if that formatter process was started and
\* fed (it exited, with or without success) and not at all otherwise.
C1_ChangeSuppression ==
  (CycleOver /\ cycle = 2 /\ delta.kind = "none")
    => /\ Count(log, "fmt_spawn") = 0
       /\ Count(log, "write_file") = 0
       /\ Count(prevLog, "fmt_spawn") =
            (IF Has(prevLog, "collect_ok") /\ currentManifest # EmptyManifest
             THEN 1 ELSE 0)
       /\ Count(prevLog, "write_file") =
            (IF Has(prevLog, "fmt_ok") \/ Has(prevLog, "fmt_exit_nonzero")
             THEN 1 ELSE 0)

\* both runs reached dispatch, the first generated, the second did nothing
C1_Witness ==
  /\ pc = "running" /\ cycle = 2 /\ delta.kind = "none"
  /\ Count(prevLog, "fmt_spawn") = 1 /\ Count(prevLog, "write_file") = 1
  /\ Dispatched(prevLog)
  /\ Len(newManifest.routes) = 2
  /\ genFile.kind = "module" /\ genFile.body = Render(newManifest)

\* ---- C2 -------------------------------------------------------------------
\* the previous run completed and stored its snapshot, and since then exactly
\* one file with an accepted extension was added under routes/
OneRouteAdded ==
  /\ cycle >= 2
  /\ Has(prevLog, "env_set") /\ Dispatched(prevLog)
  /\ delta.kind = "add" /\ delta.root = "routes" /\ HasAcceptedExt(delta.file)

\* C2 as stated: after a completed run, adding one source file under routes/
\* makes the next run regenerate fresh.gen.ts with the previous route import
\* list plus the one entry at its sorted position.
C2_AsStated ==
  (OneRouteAdded /\ CycleOver)
    => /\ Has(log, "write_file")
       /\ genFile.kind = "module"
       /\ Len(genFile.body.imports) >= Len(currentManifest.routes) + 1
       /\ \E k \in 1..(Len(currentManifest.routes) + 1) :
            /\ SortedPosition(currentManifest.routes, delta.file, k)
            /\ InsertedAt(RouteSources(Render(currentManifest), Len(currentManifest.routes)),
                          QuotedSpecifier(RoutesDir, delta.file),
                          RouteSources(genFile.body, Len(currentManifest.routes) + 1), k)

\* C2 amended: after a completed run, adding one source file under routes/
\* whose logical name is not taken by another route file (so that collect
\* succeeds) makes the next run call generate; the route list handed to
\* generate is the previous list with the new path inserted at its position
\* in ascending order, the route imports it renders are the previous route
\* imports with the one new specifier inserted at that position, and that is
\* what fresh.gen.ts holds whenever the formatter exits successfully.  In
\* every run generate is called exactly if the collected lists differ in any
\* way from the snapshot's lists.
C2_ChangeDetection ==
  /\ Has(log, "compare") =>
       /\ manifestChanged = (newManifest # currentManifest)
       /\ (pc # "compare" /\ pc # "generate") => (Has(log, "fmt_spawn") = manifestChanged)
  /\ (OneRouteAdded /\ Has(log, "compare")) =>
       /\ manifestChanged
       /\ newManifest.islands = currentManifest.islands
       /\ \E k \in 1..Len(newManifest.routes) :
            /\ SortedPosition(currentManifest.routes, delta.file, k)
            /\ InsertedAt(currentManifest.routes, delta.file, newManifest.routes, k)
            /\ InsertedAt(RouteSources(Render(currentManifest), Len(currentManifest.routes)),
                          QuotedSpecifier(RoutesDir, delta.file),
                          RouteSources(Render(newManifest), Len(newManifest.routes)), k)
       /\ (Has(log, "fmt_ok") /\ Has(log, "write_file")) =>
            /\ genFile.kind = "module"
            /\ genFile.body = Render(newManifest)

\* a file was added in front of an existing route and the run regenerated
C2_Witness ==
  /\ OneRouteAdded /\ pc = "running"
  /\ Has(log, "fmt_ok") /\ Has(log, "write_file")
  /\ Len(newManifest.routes) = 2 /\ newManifest.routes[1] = delta.file
  /\ genFile.body.imports[1].source = QuotedSpecifier(RoutesDir, delta.file)

\* ---- C3 -------------------------------------------------------------------
\* two different visited files of the root have the same logical name
NameClash(root) ==
  \E f, g \in Accepted(root) :
    f # g /\ DropLastDotSegment(f) = DropLastDotSegment(g)

\* C3: the scan of a directory fails with a route conflict exactly if two
\* visited files share the relative path without its final "."-separated
\* segment, whatever order the walk yields them in, and a failed scan returns
\* no path list.
C3_ConflictDetection ==
  Scanned =>
    \A root \in Roots :
      tree[root].stat = "dir" =>
        /\ (scan[root].result.outcome = "conflict") = NameClash(root)
        /\ scan[root].result.outcome \in {"ok", "conflict"}
        /\ scan[root].result.outcome = "conflict" => scan[root].result.paths = <<>>

\* a.ts and a.tsx were both visited and the scan of routes/ failed
C3_Witness ==
  /\ pc = "aborted"
  /\ tree["routes"].stat = "dir"
  /\ Cardinality(Accepted("routes")) = 2
  /\ NameClash("routes")
  /\ scan["routes"].result.outcome = "conflict"
  /\ Has(log, "collect_failed")

\* ---- C4 -------------------------------------------------------------------
\* C4: a root that does not exist or is not a directory scans to the empty
\* sequence, without an error and without a walk; any other stat failure is
\* propagated as an error.
C4_AbsentRootTolerance ==
  Scanned =>
    \A root \in Roots :
      /\ tree[root].stat \in {"absent", "file"} =>
           scan[root].result = [outcome |-> "ok", paths |-> <<>>, walked |-> FALSE]
      /\ tree[root].stat = "denied" =>
           /\ scan[root].result.outcome = "error"
           /\ ~scan[root].result.walked
           /\ pc = "aborted"
      /\ tree[root].stat = "dir" => scan[root].result.walked

\* routes/ is a plain file and scans to nothing, islands/ cannot be read
C4_Witness ==
  /\ pc = "aborted"
  /\ tree["routes"].stat = "file"
  /\ scan["routes"].result.outcome = "ok"
  /\ tree["islands"].stat = "denied"
  /\ scan["islands"].result.outcome = "error"

\* ---- C5 -------------------------------------------------------------------
\* C5: a successful scan returns every accepted file of the root exactly
\* once, in strictly ascending code-unit order, whatever the walk order was.
C5_Determinism ==
  Scanned =>
    \A root \in Roots :
      (tree[root].stat = "dir" /\ scan[root].result.outcome = "ok") =>
        LET paths == scan[root].result.paths
        IN /\ SeqSet(paths) = Accepted(root)
           /\ Len(paths) = Cardinality(Accepted(root))
           /\ \A i \in 1..(Len(paths) - 1) : StrLess(paths[i], paths[i + 1])

\* the walk yielded two files in descending order and the scan returned
\* them ascending
C5_Witness ==
  /\ Scanned
  /\ scan["routes"].result.outcome = "ok"
  /\ Len(scan["routes"].order) = 2
  /\ StrLess(scan["routes"].order[2], scan["routes"].order[1])
  /\ scan["routes"].result.paths = <<scan["routes"].order[2], scan["routes"].order[1]>>

\* ---- C6 -------------------------------------------------------------------
FormatterFailed(seq) ==
  Has(seq, "fmt_nospawn") \/ Has(seq, "fmt_pipe_error") \/ Has(seq, "fmt_exit_nonzero")

\* C6: when the formatter cannot be started, exits with a failure status or
\* produces no output, generate() fails and fresh.gen.ts is not written in
\* that cycle.
C6_FormatterFailureIsFatal ==
  FormatterFailed(log) =>
    /\ ~Has(log, "write_file")
    /\ ~Dispatched(log)

\* ---- C7 -------------------------------------------------------------------
Distinct(seq) == \A i, j \in 1..Len(seq) : i # j => seq[i] # seq[j]

\* C7: the rendered module has one import per route then one per island,
\* the i-th route bound to $i and the i-th island to $$i; each registry has
\* one key per entry in manifest order, each key being the specifier of the
\* import of its binding; all keys and all bindings are pairwise distinct.
C7_RegistryStructure ==
  Has(log, "collect_ok") =>
    LET body == Render(newManifest)
        nr == Len(newManifest.routes)
        ni == Len(newManifest.islands)
    IN /\ Len(body.imports) = nr + ni
       /\ Len(body.routes) = nr
       /\ Len(body.islands) = ni
       /\ \A i \in 1..nr :
            /\ body.imports[i].binding = [prefix |-> "$", index |-> i - 1]
            /\ body.routes[i].binding = body.imports[i].binding
            /\ body.routes[i].key = body.imports[i].source
       /\ \A i \in 1..ni :
            /\ body.imports[nr + i].binding = [prefix |-> "$$", index |-> i - 1]
            /\ body.islands[i].binding = body.imports[nr + i].binding
            /\ body.islands[i].key = body.imports[nr + i].source
       /\ Distinct([i \in 1..(nr + ni) |-> body.imports[i].binding])
       /\ Distinct([i \in 1..nr |-> body.routes[i].key]
                   \o [i \in 1..ni |-> body.islands[i].key])

\* ---- C8 -------------------------------------------------------------------
\* C8: in a cycle whose collect succeeds the snapshot is read once, before
\* collect, and written once, right after collect and before the comparison;
\* from the write on it parses to the collected manifest whatever happens in
\* regeneration and dispatch; an absent snapshot is compared as the empty
\* manifest.
C8_SnapshotFreshness ==
  /\ Has(log, "collect_ok") =>
       /\ Count(log, "env_get") = 1 /\ log[1] = "env_get" /\ log[2] = "collect_ok"
       /\ Len(log) = 2 => (Count(log, "env_set") = 0 /\ pc = "snapshot")
       /\ Len(log) >= 3 =>
            /\ log[3] = "env_set" /\ Count(log, "env_set") = 1
            /\ env.set /\ env.text # <<>>
            /\ JSONParse(env.text) = newManifest
       /\ Len(log) >= 4 => (log[4] = "compare" /\ Count(log, "compare") = 1)
  /\ (pc \in {"collect", "snapshot"} /\ ~env.set) => currentManifest = EmptyManifest
  /\ (cycle = 1 /\ Has(log, "compare")) =>
       /\ currentManifest = EmptyManifest
       /\ manifestChanged = (newManifest # EmptyManifest)

\* regeneration failed in a cycle that changed nothing of the islands, and
\* the snapshot holds the collected manifest all the same
C8_Witness ==
  /\ pc = "aborted" /\ cycle = 2
  /\ Has(log, "fmt_nospawn")
  /\ newManifest.routes # <<>> /\ newManifest.islands # <<>>
  /\ currentManifest # EmptyManifest
  /\ JSONParse(env.text) = newManifest

\* ---- C9 -------------------------------------------------------------------
ScanFailed(s) == \E root \in Roots : s[root].result.outcome # "ok"

\* C9: when one of the two scans fails the cycle aborts at once: the
\* snapshot and fresh.gen.ts stay as they were, the formatter is not invoked
\* and nothing is dispatched, until the cycle is over; and a manifest is used
\* only if both scans succeeded, and then it holds the results of both.
C9_CollectFailureNoEffects ==
  [][ /\ ScanFailed(scan') =>
           /\ pc' = "aborted"
           /\ log' = <<"env_get", "collect_failed">>
           /\ env' = env /\ genFile' = genFile
      /\ ScanFailed(scan) =>
           /\ pc' = "idle"
           /\ env' = env /\ genFile' = genFile
      /\ Has(log', "collect_ok") =>
           /\ ~ScanFailed(scan')
           /\ newManifest' = [routes |-> scan'["routes"].result.paths,
                              islands |-> scan'["islands"].result.paths]
    ]_vars

\* the scan of routes/ failed while the scan of islands/ had found a file,
\* with a snapshot of an earlier cycle in place
C9_Witness ==
  /\ pc = "aborted" /\ cycle = 2
  /\ scan["routes"].result.outcome = "conflict"
  /\ scan["islands"].result.outcome = "ok"
  /\ scan["islands"].result.paths # <<>>
  /\ env.set /\ JSONParse(env.text).islands = scan["islands"].result.paths

\* ---- C10 ------------------------------------------------------------------
\* C10: whenever a cycle starts the build step or the entrypoint import,
\* fresh.gen.ts exists and was rendered from the manifest collected in that
\* cycle, which is the one stored in the snapshot.
C10_NoStaleRegistryAtDispatch ==
  (pc = "running" /\ Dispatched(log)) =>
    /\ env.set /\ JSONParse(env.text) = newManifest
    /\ genFile.kind = "module"
    /\ genFile.body = Render(newManifest)

====
